---- MODULE Spec2Model ----
(***************************************************************************)
(* sphinx_thrift: the Thrift Sphinx domain (symbol registry, cross-        *)
(* reference resolver, index), and the AST builder.                        *)
(*                                                                         *)
(* Python strings are TLA+ strings (\o, Len, SubSeq act on them).          *)
(* Optional[X] is a sequence: << >> is None, <<x>> is the value x.         *)
(* A dict is a sequence of entries in insertion order (Python >= 3.7).     *)
(***************************************************************************)
EXTENDS Integers, Sequences, FiniteSets, TLC

VARIABLES
    objects,   \* env.domaindata['thrift']['objects']: Signature -> (docname, objtype, label)
    ids,       \* per document: the Signatures among state.document.ids
    ir,        \* the compiler's IR element being read (the AST builder's input)
    out        \* the last operation and what it returned

vars == <<objects, ids, ir, out>>

\* ------------------------------------------------------------------ bounds

\* entries of the registry while references are resolved
MaxObjects == 2

\* entries of the registry while the index is generated
MaxIndexed == 3

\* nesting depth of the IR type nodes
MaxDepth == 2

\* members of the IR enum element
MaxMembers == 2

\* entries of the registry while modules are loaded and documented
MaxLoaded == 3

\* ------------------------------------------------------------ Python values

NoneVal == << >>

Some(x) == <<x>>

\* str(x) of an Optional[str]: f'{None}' is the four characters None.
PyStr(opt) == IF opt = NoneVal THEN "None" ELSE opt[1]

\* s[0]
FirstChar(s) == SubSeq(s, 1, 1)

UpperMap ==
    [a |-> "A", b |-> "B", c |-> "C", d |-> "D", e |-> "E", f |-> "F", g |-> "G",
     h |-> "H", i |-> "I", j |-> "J", k |-> "K", l |-> "L", m |-> "M", n |-> "N",
     o |-> "O", p |-> "P", q |-> "Q", r |-> "R", s |-> "S", t |-> "T", u |-> "U",
     v |-> "V", w |-> "W", x |-> "X", y |-> "Y", z |-> "Z"]

\* c.upper() of one ASCII character
Upper(c) == IF c \in DOMAIN UpperMap THEN UpperMap[c] ELSE c

\* the ASCII characters the names use, in code point order
CharOrder == ".:ABCDEFGHIJKLMNOPQRSTUVWXYZ_abcdefghijklmnopqrstuvwxyz"

Ord(c) == CHOOSE i \in 1..Len(CharOrder) : SubSeq(CharOrder, i, i) = c

\* ---------------------------------------------------------------- Signature

Signature(kind, name, module) == [kind |-> kind, name |-> name, module |-> module]

\* Signature.__str__
SigStr(sig) == PyStr(sig.module) \o "." \o sig.name \o ":" \o sig.kind

\* f'{sig.module}.{sig.name}' of find_target
Qualified(sig) == PyStr(sig.module) \o "." \o sig.name

\* ------------------------------------------------------------- directives

\* ThriftDomain.directives: the directive names; objtype is the directive's name
DirectiveNames ==
    {"module", "constant", "typedef", "enum", "enum_field", "struct", "struct_field",
     "exception", "exception_field", "service", "service_method"}

\* the options handle_signature reads with self.options[...]
RequiredOptions(objtype) ==
    CASE objtype = "module" -> {}
      [] objtype = "constant" -> {"module", "type"}
      [] objtype = "typedef" -> {"module", "target"}
      [] objtype = "enum" -> {"module"}
      [] objtype = "enum_field" -> {"enum", "value", "module"}
      [] objtype \in {"struct", "exception"} -> {"module"}
      [] objtype \in {"struct_field", "exception_field"} -> {"struct", "type", "module"}
      [] objtype = "service" -> {"module"}
      [] objtype = "service_method" ->
            {"return_type", "service", "parameters", "exceptions", "module"}

\* the option whose value prefixes the name of a nested entity
PrefixOption(objtype) ==
    CASE objtype = "enum_field" -> Some("enum")
      [] objtype \in {"struct_field", "exception_field"} -> Some("struct")
      [] objtype = "service_method" -> Some("service")
      [] OTHER -> NoneVal

\* <Directive>.handle_signature: the Signature, or a KeyError for an option
\* the directive does not carry
handle_signature(objtype, sig, options) ==
    IF ~(RequiredOptions(objtype) \subseteq DOMAIN options)
    THEN [raised |-> "KeyError", name |-> NoneVal]
    ELSE IF objtype = "module"
    THEN [raised |-> "", name |-> Some(Signature(objtype, sig, NoneVal))]
    ELSE IF PrefixOption(objtype) # NoneVal
    THEN [raised |-> "",
          name |-> Some(Signature(objtype,
                                  options[PrefixOption(objtype)[1]] \o "." \o sig,
                                  Some(options["module"])))]
    ELSE [raised |-> "", name |-> Some(Signature(objtype, sig, Some(options["module"])))]

\* ------------------------------------------------------------------ registry

Keys(objs) == {objs[i].sig : i \in 1..Len(objs)}

IndexOf(objs, sig) == CHOOSE i \in 1..Len(objs) : objs[i].sig = sig

\* a plausible bug: the entry is added even when its key is present
DictSet_Append(objs, entry) == Append(objs, entry)

\* objects[name] = value: a present key keeps its place and takes the value
DictSet(objs, entry) ==
    IF entry.sig \in Keys(objs)
    THEN [objs EXCEPT ![IndexOf(objs, entry.sig)] = entry]
    ELSE Append(objs, entry)

\* a plausible bug: the registry is rebuilt from the new entry alone
add_target_and_index_Reset(objs, docids, name, docname, objtype) ==
    IF name \in docids
    THEN [objects |-> objs, ids |-> docids]
    ELSE [objects |-> <<[sig |-> name, docname |-> docname, objtype |-> objtype,
                         label |-> SigStr(name)]>>,
          ids |-> docids \cup {name}]

\* ThriftObject.add_target_and_index
add_target_and_index(objs, docids, name, docname, objtype) ==
    IF name \in docids
    THEN [objects |-> objs, ids |-> docids]
    ELSE [objects |-> DictSet(objs, [sig |-> name, docname |-> docname,
                                     objtype |-> objtype, label |-> SigStr(name)]),
          ids |-> docids \cup {name}]

\* ------------------------------------------------------------------ resolver

Location(e) == <<e.docname, Qualified(e.sig) \o ":" \o e.sig.kind>>

\* a plausible bug: the bare-name test comes first and returns at once
RECURSIVE ScanBareFirst(_, _, _, _)
ScanBareFirst(objs, target, i, moduleless) ==
    IF i > Len(objs)
    THEN [found |-> FALSE, ret |-> NoneVal, moduleless |-> moduleless]
    ELSE IF objs[i].sig.name = target
    THEN [found |-> TRUE, ret |-> Location(objs[i]), moduleless |-> moduleless]
    ELSE IF Qualified(objs[i].sig) = target
    THEN [found |-> TRUE, ret |-> Location(objs[i]), moduleless |-> moduleless]
    ELSE ScanBareFirst(objs, target, i + 1, moduleless)

\* the loop of find_target over objects.items(), from entry i on
RECURSIVE Scan(_, _, _, _)
Scan(objs, target, i, moduleless) ==
    IF i > Len(objs)
    THEN [found |-> FALSE, ret |-> NoneVal, moduleless |-> moduleless]
    ELSE IF Qualified(objs[i].sig) = target
    THEN [found |-> TRUE, ret |-> Location(objs[i]), moduleless |-> moduleless]
    ELSE Scan(objs, target, i + 1,
              IF objs[i].sig.name = target
              THEN Append(moduleless, Location(objs[i]))
              ELSE moduleless)

\* the target find_target scans for: 'None.' + target under the module role
EffectiveTarget(typ, target) == IF typ = "module" THEN "None." \o target ELSE target

AmbiguousWarnings(target, moduleless) ==
    <<target \o " is ambiguous. Possible resolutions:">>
    \o [i \in 1..Len(moduleless) |->
            "   " \o moduleless[i][1] \o ": " \o moduleless[i][2]]

\* a plausible bug: several candidates resolve to the first of them
find_target_FirstCandidate(objs, typ, target) ==
    LET s == Scan(objs, EffectiveTarget(typ, target), 1, << >>)
    IN  IF s.found THEN [ret |-> s.ret, warnings |-> << >>]
        ELSE IF Len(s.moduleless) >= 1
        THEN [ret |-> s.moduleless[1], warnings |-> << >>]
        ELSE [ret |-> NoneVal, warnings |-> << >>]

\* a plausible bug: a single candidate is not returned
find_target_DropsUnique(objs, typ, target) ==
    LET s == Scan(objs, EffectiveTarget(typ, target), 1, << >>)
    IN  IF s.found THEN [ret |-> s.ret, warnings |-> << >>]
        ELSE IF Len(s.moduleless) > 1
        THEN [ret |-> NoneVal,
              warnings |-> AmbiguousWarnings(EffectiveTarget(typ, target), s.moduleless)]
        ELSE [ret |-> NoneVal, warnings |-> << >>]

\* a plausible bug: every failed resolution is reported
find_target_WarnsUnresolved(objs, typ, target) ==
    LET s == Scan(objs, EffectiveTarget(typ, target), 1, << >>)
    IN  IF s.found THEN [ret |-> s.ret, warnings |-> << >>]
        ELSE IF Len(s.moduleless) = 1
        THEN [ret |-> s.moduleless[1], warnings |-> << >>]
        ELSE [ret |-> NoneVal,
              warnings |-> AmbiguousWarnings(EffectiveTarget(typ, target), s.moduleless)]

\* a plausible bug: only the entries of the role's kind are scanned
find_target_KindFiltered(objs, typ, target) ==
    LET s == Scan(SelectSeq(objs, LAMBDA e : typ = "module" \/ e.sig.kind = typ),
                  EffectiveTarget(typ, target), 1, << >>)
    IN  IF s.found THEN [ret |-> s.ret, warnings |-> << >>]
        ELSE IF Len(s.moduleless) = 1
        THEN [ret |-> s.moduleless[1], warnings |-> << >>]
        ELSE IF Len(s.moduleless) > 1
        THEN [ret |-> NoneVal,
              warnings |-> AmbiguousWarnings(EffectiveTarget(typ, target), s.moduleless)]
        ELSE [ret |-> NoneVal, warnings |-> << >>]

\* ThriftXRefRole.find_target: the return value and the logger.warning lines
find_target(objs, typ, target) ==
    LET s == Scan(objs, EffectiveTarget(typ, target), 1, << >>)
    IN  IF s.found THEN [ret |-> s.ret, warnings |-> << >>]
        ELSE IF Len(s.moduleless) = 1
        THEN [ret |-> s.moduleless[1], warnings |-> << >>]
        ELSE IF Len(s.moduleless) > 1
        THEN [ret |-> NoneVal,
              warnings |-> AmbiguousWarnings(EffectiveTarget(typ, target), s.moduleless)]
        ELSE [ret |-> NoneVal, warnings |-> << >>]

\* ThriftDomain.resolve_xref: make_refnode(builder, fromdocname, todoc, tgt, contnode)
\* or None
resolve_xref(objs, typ, target) ==
    LET targetdata == find_target(objs, typ, target)
    IN  IF targetdata.ret # NoneVal
        THEN Some([todoc |-> targetdata.ret[1], refid |-> targetdata.ret[2]])
        ELSE NoneVal

\* --------------------------------------------------------------------- index

\* one row of entries: [name.name, 0, docname, signature, objtype, '', '']
IndexEntry(e) == <<e.sig.name, 0, e.docname, e.label, e.objtype, "", "">>

\* key=lambda t: t[0][0].upper()
GroupKey(entry) == Upper(FirstChar(entry[1]))

\* itertools.groupby: the runs of adjacent entries with equal keys, from entry i on
RECURSIVE groupby(_, _, _)
groupby(entries, i, runs) ==
    IF i > Len(entries) THEN runs
    ELSE IF runs # << >> /\ runs[Len(runs)].key = GroupKey(entries[i])
    THEN groupby(entries, i + 1,
                 [runs EXCEPT ![Len(runs)].group = Append(@, entries[i])])
    ELSE groupby(entries, i + 1,
                 Append(runs, [key |-> GroupKey(entries[i]), group |-> <<entries[i]>>]))

ContentKeys(content) == {content[i].key : i \in 1..Len(content)}

\* a plausible bug: a later run of a key replaces the key's earlier runs
RECURSIVE CollectOverwrite(_, _, _)
CollectOverwrite(runs, i, content) ==
    IF i > Len(runs) THEN content
    ELSE IF runs[i].key \in ContentKeys(content)
    THEN CollectOverwrite(runs, i + 1,
            [n \in 1..Len(content) |->
                IF content[n].key = runs[i].key THEN runs[i] ELSE content[n]])
    ELSE CollectOverwrite(runs, i + 1, Append(content, runs[i]))

\* the loop over the runs: content[key] = [] once, content[key].extend(group)
RECURSIVE Collect(_, _, _)
Collect(runs, i, content) ==
    IF i > Len(runs) THEN content
    ELSE IF runs[i].key \in ContentKeys(content)
    THEN Collect(runs, i + 1,
            [n \in 1..Len(content) |->
                IF content[n].key = runs[i].key
                THEN [content[n] EXCEPT !.group = @ \o runs[i].group]
                ELSE content[n]])
    ELSE Collect(runs, i + 1, Append(content, runs[i]))

\* sorted(content.items(), key=lambda t: t[0]); the keys of a dict are distinct
RECURSIVE SortedItems(_)
SortedItems(content) ==
    IF content = << >> THEN << >>
    ELSE LET m == CHOOSE n \in 1..Len(content) :
                      \A k \in 1..Len(content) : Ord(content[n].key) <= Ord(content[k].key)
         IN  <<content[m]>>
             \o SortedItems([n \in 1..(Len(content) - 1) |->
                                IF n < m THEN content[n] ELSE content[n + 1]])

\* ThriftIndex.generate: the sorted (key, entries) pairs; the second component of
\* the returned pair is the constant False
generate(objs) ==
    IF \E i \in 1..Len(objs) : objs[i].sig.name = ""
    THEN [raised |-> "IndexError", content |-> << >>]
    ELSE [raised |-> "",
          content |-> SortedItems(Collect(
                         groupby([i \in 1..Len(objs) |-> IndexEntry(objs[i])], 1, << >>),
                         1, << >>))]

\* ------------------------------------------------------------------- actions

Docs == {"doc1", "doc2"}

\* ThriftDomain.initial_data
Init ==
    /\ objects = << >>
    /\ ids = [d \in Docs |-> {}]
    /\ ir = NoneVal
    /\ out = [op |-> "init"]

\* One directive run in document docname: handle_signature, then
\* add_target_and_index with the Signature it returned.
Directive(docname, objtype, sig, options) ==
    LET h == handle_signature(objtype, sig, options)
    IN  IF h.raised # ""
        THEN /\ out' = [op |-> "directive", raised |-> h.raised, docname |-> docname,
                        name |-> NoneVal]
             /\ UNCHANGED <<objects, ids, ir>>
        ELSE LET r == add_target_and_index(objects, ids[docname], h.name[1],
                                           docname, objtype)
             IN  /\ objects' = r.objects
                 /\ ids' = [ids EXCEPT ![docname] = r.ids]
                 /\ out' = [op |-> "directive", raised |-> "", docname |-> docname,
                            name |-> h.name]
                 /\ UNCHANGED ir

\* A reference of role typ to target is resolved.
ResolveXref(typ, target) ==
    /\ out' = [op |-> "resolve_xref", typ |-> typ, target |-> target,
               found |-> find_target(objects, typ, target),
               node |-> resolve_xref(objects, typ, target)]
    /\ UNCHANGED <<objects, ids, ir>>

\* The index page is generated.
Generate ==
    /\ out' = [op |-> "generate", index |-> generate(objects)]
    /\ UNCHANGED <<objects, ids, ir>>

\* The directives of the documents: Foo in modules A and B, in a module whose
\* name is None, as a top-level module, as a member of enum A of module B; the
\* last one lacks the value option.
DirectiveInputs ==
    {[objtype |-> "module", sig |-> "Foo", options |-> << >>],
     [objtype |-> "struct", sig |-> "Foo", options |-> [module |-> "A"]],
     [objtype |-> "struct", sig |-> "Foo", options |-> [module |-> "B"]],
     [objtype |-> "struct", sig |-> "Foo", options |-> [module |-> "None"]],
     [objtype |-> "enum", sig |-> "Foo", options |-> [module |-> "A"]],
     [objtype |-> "enum_field", sig |-> "Foo",
      options |-> [module |-> "B", enum |-> "A", value |-> "1"]],
     [objtype |-> "enum_field", sig |-> "Foo", options |-> [module |-> "B", enum |-> "A"]]}

\* ThriftDomain.roles
RoleNames ==
    {"module", "constant", "typedef", "enum", "enum_field", "struct", "struct_field",
     "exception", "exception_field", "service", "service_method"}

RoleInputs == {"module", "struct"}

TargetInputs == {"Foo", "A.Foo", "B.Foo", "None.Foo", "Bar"}

Next ==
    \/ \E d \in Docs, i \in DirectiveInputs :
          Directive(d, i.objtype, i.sig, i.options) /\ Len(objects') <= MaxObjects
    \/ \E typ \in RoleInputs, target \in TargetInputs : ResolveXref(typ, target)
    \/ Generate

Spec == Init /\ [][Next]_vars

\* The index is generated over structs of module A registered from one document.
IndexInputs ==
    {[objtype |-> "struct", sig |-> n, options |-> [module |-> "A"]] :
        n \in {"apple", "Banana", "avocado", "banjo", "_x"}}

NextIndex ==
    \/ \E i \in IndexInputs :
          Directive("doc1", i.objtype, i.sig, i.options) /\ Len(objects') <= MaxIndexed
    \/ Generate

SpecIndex == Init /\ [][NextIndex]_vars

\* ------------------------------------------------- type expression parser

\* the basic-type keywords
BasicTypes == {"bool", "byte", "i8", "i16", "i32", "i64", "double", "string", "binary"}

Atomic(name) == [tag |-> "Atomic", name |-> name]

ListOf(elem) == [tag |-> "List", elem |-> elem]

SetOf(elem) == [tag |-> "Set", elem |-> elem]

MapOf(key, value) == [tag |-> "Map", key |-> key, value |-> value]

Reference(module, name) == [tag |-> "Reference", module |-> module, name |-> name]

Parsed(type) == [error |-> "", type |-> type]

MalformedInput(raw) == [error |-> "MalformedInput", raw |-> raw]

\* a plausible bug: the child of a list or set is read by its type attribute
\* alone, without descending into it
RECURSIVE parse_type_Flat(_)
parse_type_Flat(node) ==
    IF node.type \in {"list", "set"}
    THEN IF "valueType" \notin DOMAIN node THEN MalformedInput("valueType")
         ELSE Parsed(IF node.type = "list" THEN ListOf(Atomic(node.valueType.type))
                     ELSE SetOf(Atomic(node.valueType.type)))
    ELSE IF node.type = "map"
    THEN IF ~({"keyType", "valueType"} \subseteq DOMAIN node) THEN MalformedInput("map")
         ELSE LET k == parse_type_Flat(node.keyType)
                  v == parse_type_Flat(node.valueType)
              IN  IF k.error # "" THEN k
                  ELSE IF v.error # "" THEN v
                  ELSE Parsed(MapOf(k.type, v.type))
    ELSE IF node.type = "id"
    THEN IF ~({"type_module", "type_id"} \subseteq DOMAIN node) THEN MalformedInput("id")
         ELSE Parsed(Reference(node.type_module, node.type_id))
    ELSE IF node.type \in BasicTypes THEN Parsed(Atomic(node.type))
    ELSE MalformedInput(node.type)

\* parser.parse_type: one IR type node (its type attribute, its valueType and
\* keyType children, its type-module and type-id attributes) to a Type
RECURSIVE parse_type(_)
parse_type(node) ==
    IF node.type \in {"list", "set"}
    THEN IF "valueType" \notin DOMAIN node THEN MalformedInput("valueType")
         ELSE LET v == parse_type(node.valueType)
              IN  IF v.error # "" THEN v
                  ELSE Parsed(IF node.type = "list" THEN ListOf(v.type) ELSE SetOf(v.type))
    ELSE IF node.type = "map"
    THEN IF ~({"keyType", "valueType"} \subseteq DOMAIN node) THEN MalformedInput("map")
         ELSE LET k == parse_type(node.keyType)
                  v == parse_type(node.valueType)
              IN  IF k.error # "" THEN k
                  ELSE IF v.error # "" THEN v
                  ELSE Parsed(MapOf(k.type, v.type))
    ELSE IF node.type = "id"
    THEN IF ~({"type_module", "type_id"} \subseteq DOMAIN node) THEN MalformedInput("id")
         ELSE Parsed(Reference(node.type_module, node.type_id))
    ELSE IF node.type \in BasicTypes THEN Parsed(Atomic(node.type))
    ELSE MalformedInput(node.type)

\* the nesting depth of an IR type node
RECURSIVE Depth(_)
Depth(node) ==
    IF node.type \in {"list", "set"} /\ "valueType" \in DOMAIN node
    THEN 1 + Depth(node.valueType)
    ELSE IF node.type = "map" /\ {"keyType", "valueType"} \subseteq DOMAIN node
    THEN 1 + (IF Depth(node.keyType) >= Depth(node.valueType)
              THEN Depth(node.keyType) ELSE Depth(node.valueType))
    ELSE 0

\* the leaves of the IR type nodes: the basic keywords, a reference, a type
\* value that is none of the grammar's, a list without its child
LeafNodes ==
    {[type |-> t] : t \in BasicTypes}
    \cup {[type |-> "id", type_module |-> "Example", type_id |-> "Operation"],
          [type |-> "varchar"],
          [type |-> "list"]}

\* the other child of a map around the node under construction
MapSiblings ==
    {[type |-> "i32"], [type |-> "string"],
     [type |-> "id", type_module |-> "Example", type_id |-> "Operation"]}

InitTypes ==
    /\ objects = << >>
    /\ ids = [d \in Docs |-> {}]
    /\ ir \in {Some(n) : n \in LeafNodes}
    /\ out = [op |-> "init"]

\* The compiler nests the node in a list or a set.
WrapCollection(kind) ==
    /\ Depth(ir[1]) < MaxDepth
    /\ ir' = Some([type |-> kind, valueType |-> ir[1]])
    /\ out' = [op |-> "init"]
    /\ UNCHANGED <<objects, ids>>

\* The compiler nests the node in a map, as its key or as its value.
WrapMap(sibling, asKey) ==
    /\ Depth(ir[1]) < MaxDepth
    /\ ir' = Some(IF asKey
                  THEN [type |-> "map", keyType |-> ir[1], valueType |-> sibling]
                  ELSE [type |-> "map", keyType |-> sibling, valueType |-> ir[1]])
    /\ out' = [op |-> "init"]
    /\ UNCHANGED <<objects, ids>>

\* The node is parsed.
ParseType ==
    /\ out' = [op |-> "parse_type", result |-> parse_type(ir[1])]
    /\ UNCHANGED <<objects, ids, ir>>

NextTypes ==
    \/ \E kind \in {"list", "set"} : WrapCollection(kind)
    \/ \E sibling \in MapSiblings, asKey \in BOOLEAN : WrapMap(sibling, asKey)
    \/ ParseType

SpecTypes == InitTypes /\ [][NextTypes]_vars

\* --------------------------------------------------------------- AST builder

\* {m['name']: m['value'] for m in members}: a repeated name keeps its first
\* place and takes the later value
RECURSIVE MembersDict(_, _, _)
MembersDict(members, i, dict) ==
    IF i > Len(members) THEN dict
    ELSE MembersDict(members, i + 1,
            IF \E n \in 1..Len(dict) : dict[n].name = members[i].name
            THEN [n \in 1..Len(dict) |->
                     IF dict[n].name = members[i].name
                     THEN [name |-> members[i].name, value |-> members[i].value]
                     ELSE dict[n]]
            ELSE Append(dict, [name |-> members[i].name, value |-> members[i].value]))

\* thrift_ast.parse_enum: Enum(name, doc, members), or the KeyError of a key
\* that j lacks
parse_enum(j) ==
    IF ~({"name", "doc", "members"} \subseteq DOMAIN j)
       \/ \E i \in 1..Len(j.members) : ~({"name", "value"} \subseteq DOMAIN j.members[i])
    THEN [raised |-> "KeyError", enum |-> NoneVal]
    ELSE [raised |-> "",
          enum |-> Some([name |-> j.name, doc |-> j.doc,
                         members |-> MembersDict(j.members, 1, << >>)])]

\* the members an enum element declares
MemberInputs ==
    {[name |-> n, value |-> v, doc |-> d] :
        n \in {"ADD", "SUBTRACT"}, v \in {1, 2}, d \in {"", "doc of the member"}}

InitEnum ==
    /\ objects = << >>
    /\ ids = [d \in Docs |-> {}]
    /\ ir \in {Some([name |-> "Operation", doc |-> "You can define enums",
                     members |-> << >>]),
               Some([name |-> "Operation", members |-> << >>])}
    /\ out = [op |-> "init"]

\* The enum element declares one more member.
DeclareMember(m) ==
    /\ Len(ir[1].members) < MaxMembers
    /\ ir' = Some([ir[1] EXCEPT !.members = Append(@, m)])
    /\ out' = [op |-> "init"]
    /\ UNCHANGED <<objects, ids>>

\* The enum element is built.
ParseEnum ==
    /\ out' = [op |-> "parse_enum", result |-> parse_enum(ir[1])]
    /\ UNCHANGED <<objects, ids, ir>>

NextEnum ==
    \/ \E m \in MemberInputs : DeclareMember(m)
    \/ ParseEnum

SpecEnum == InitEnum /\ [][NextEnum]_vars

\* ------------------------------------------------------------- load_module

Raised(kind) == [raised |-> kind, value |-> NoneVal]

Returned(value) == [raised |-> "", value |-> Some(value)]

\* the first exception among the results of a list comprehension, '' if none
FirstRaised(results) ==
    IF \E i \in 1..Len(results) : results[i].raised # ""
    THEN results[CHOOSE i \in 1..Len(results) :
                    /\ results[i].raised # ""
                    /\ \A k \in 1..(i - 1) : results[k].raised = ""].raised
    ELSE ""

Values(results) == [i \in 1..Len(results) |-> results[i].value[1]]

\* parse_cls: cls(**j) of a dataclass with the required fields and the defaults
parse_cls(required, defaults, j) ==
    IF ~(required \subseteq DOMAIN j) \/ ~(DOMAIN j \subseteq required \cup DOMAIN defaults)
    THEN Raised("TypeError")
    ELSE Returned([f \in required \cup DOMAIN defaults |->
                      IF f \in DOMAIN j THEN j[f] ELSE defaults[f]])

TypedefFields == {"name", "typeId", "doc"}

FieldFields == {"key", "name", "typeId", "required"}

FieldDefaults == [doc |-> "", default |-> NoneVal, type |-> NoneVal]

ConstantFields == {"name", "typeId", "value"}

ConstantDefaults == [doc |-> "", type |-> NoneVal]

\* thrift_ast.parse_struct
parse_struct(j) ==
    IF "fields" \notin DOMAIN j THEN Raised("KeyError")
    ELSE LET fields == [i \in 1..Len(j.fields) |->
                           parse_cls(FieldFields, FieldDefaults, j.fields[i])]
         IN  IF FirstRaised(fields) # "" THEN Raised(FirstRaised(fields))
             ELSE IF ~({"name", "doc", "isException", "isUnion"} \subseteq DOMAIN j)
             THEN Raised("KeyError")
             ELSE Returned([name |-> j.name, doc |-> j.doc, isException |-> j.isException,
                            isUnion |-> j.isUnion, fields |-> Values(fields)])

\* thrift_ast.parse_function
parse_function(j) ==
    IF ~({"name", "oneway", "returnTypeId", "arguments"} \subseteq DOMAIN j)
    THEN Raised("KeyError")
    ELSE LET arguments == [i \in 1..Len(j.arguments) |->
                              parse_cls(FieldFields, FieldDefaults, j.arguments[i])]
         IN  IF FirstRaised(arguments) # "" THEN Raised(FirstRaised(arguments))
             ELSE Returned([name |-> j.name,
                            doc |-> IF "doc" \in DOMAIN j THEN j.doc ELSE "",
                            oneway |-> j.oneway, returnTypeId |-> j.returnTypeId,
                            arguments |-> Values(arguments)])

\* thrift_ast.parse_service
parse_service(j) ==
    IF ~({"name", "functions"} \subseteq DOMAIN j) THEN Raised("KeyError")
    ELSE LET functions == [i \in 1..Len(j.functions) |-> parse_function(j.functions[i])]
         IN  IF FirstRaised(functions) # "" THEN Raised(FirstRaised(functions))
             ELSE Returned([name |-> j.name,
                            doc |-> IF "doc" \in DOMAIN j THEN j.doc ELSE "",
                            functions |-> Values(functions)])

\* parse_enum as an element of the list comprehension of load_module
EnumResult(j) ==
    IF parse_enum(j).raised # "" THEN Raised(parse_enum(j).raised)
    ELSE Returned(parse_enum(j).enum[1])

\* the value of the variable name after 'for lang, name in
\* j['namespaces'].items()': the loop binds name again at every namespace
NameAfterNamespaces(name, namespaces) ==
    IF namespaces = << >> THEN name ELSE namespaces[Len(namespaces)].name

\* a plausible bug: a module whose element is malformed is built without its
\* malformed lists
load_module_Lenient(j) ==
    IF "name" \notin DOMAIN j THEN Raised("KeyError")
    ELSE Returned([name |-> j.name,
                   doc |-> IF "doc" \in DOMAIN j THEN j.doc ELSE "",
                   namespaces |-> << >>, enums |-> << >>, typedefs |-> << >>,
                   structs |-> << >>, constants |-> << >>, services |-> << >>])

\* thrift_ast.load_module, from the parsed JSON j on: the Module, or the
\* exception of the first element that cannot be built
load_module(j) ==
    IF ~({"name", "doc", "namespaces"} \subseteq DOMAIN j) THEN Raised("KeyError")
    ELSE IF "typedefs" \notin DOMAIN j THEN Raised("KeyError")
    ELSE LET typedefs == [i \in 1..Len(j.typedefs) |->
                             parse_cls(TypedefFields, << >>, j.typedefs[i])]
         IN
         IF FirstRaised(typedefs) # "" THEN Raised(FirstRaised(typedefs))
    ELSE IF "enums" \notin DOMAIN j THEN Raised("KeyError")
    ELSE LET enums == [i \in 1..Len(j.enums) |-> EnumResult(j.enums[i])]
         IN
         IF FirstRaised(enums) # "" THEN Raised(FirstRaised(enums))
    ELSE IF "structs" \notin DOMAIN j THEN Raised("KeyError")
    ELSE LET structs == [i \in 1..Len(j.structs) |-> parse_struct(j.structs[i])]
         IN
         IF FirstRaised(structs) # "" THEN Raised(FirstRaised(structs))
    ELSE IF "constants" \notin DOMAIN j THEN Raised("KeyError")
    ELSE LET constants == [i \in 1..Len(j.constants) |->
                              parse_cls(ConstantFields, ConstantDefaults, j.constants[i])]
         IN
         IF FirstRaised(constants) # "" THEN Raised(FirstRaised(constants))
    ELSE IF "services" \notin DOMAIN j THEN Raised("KeyError")
    ELSE LET services == [i \in 1..Len(j.services) |-> parse_service(j.services[i])]
         IN
         IF FirstRaised(services) # "" THEN Raised(FirstRaised(services))
    ELSE Returned([name |-> NameAfterNamespaces(j.name, j.namespaces),
                   doc |-> j.doc,
                   namespaces |-> [i \in 1..Len(j.namespaces) |->
                                      [name |-> j.namespaces[i].name,
                                       language |-> j.namespaces[i].language]],
                   enums |-> Values(enums), typedefs |-> Values(typedefs),
                   structs |-> Values(structs), constants |-> Values(constants),
                   services |-> Values(services)])

\* -------------------------------------------------------------- documenter

\* documenter.typeId: the name a parameter's type is listed by
typeId(type_) ==
    CASE type_.tag = "List" -> "list"
      [] type_.tag = "Set" -> "set"
      [] type_.tag = "Map" -> "map"
      [] OTHER -> type_.name

\* f'{type_}' of a type the documenter writes into an option: a basic type is
\* its keyword; the text of the other types is not modelled beyond their name
TypeText(type_) == typeId(type_)

Emitted(directives) == [raised |-> "", directives |-> directives]

AttributeError == [raised |-> "AttributeError", directives |-> << >>]

\* a then b: the lines of both, or the lines up to the first exception
AndThen(a, b) ==
    IF a.raised # "" THEN a
    ELSE [raised |-> b.raised, directives |-> a.directives \o b.directives]

RECURSIVE InOrder(_, _)
InOrder(emissions, i) ==
    IF i > Len(emissions) THEN Emitted(<< >>)
    ELSE AndThen(emissions[i], InOrder(emissions, i + 1))

DirectiveLine(objtype, sig, options) ==
    [objtype |-> objtype, sig |-> sig, options |-> options]

\* document_constant
document_constant(module, cons) ==
    IF ~({"name", "type_", "doc"} \subseteq DOMAIN cons) THEN AttributeError
    ELSE Emitted(<<DirectiveLine("constant", cons.name,
                                 [module |-> module.name, type |-> TypeText(cons.type_)])>>)

\* document_typedef
document_typedef(module, td) ==
    IF ~({"name", "type_", "doc"} \subseteq DOMAIN td) THEN AttributeError
    ELSE Emitted(<<DirectiveLine("typedef", td.name,
                                 [module |-> module.name, target |-> TypeText(td.type_)])>>)

\* the enum_field directive of one member
EnumFieldLines(module, enum, member) ==
    IF ~({"name", "doc"} \subseteq DOMAIN member) THEN AttributeError
    ELSE Emitted(<<DirectiveLine("enum_field", member.name,
                                 [module |-> module.name, enum |-> enum.name])>>)

\* ThriftModuleDocumenter._generate_enum
_generate_enum(module, enum) ==
    AndThen(Emitted(<<DirectiveLine("enum", enum.name, [module |-> module.name])>>),
            InOrder([i \in 1..Len(enum.members) |->
                        EnumFieldLines(module, enum, enum.members[i])], 1))

\* the struct_field directive of one field
StructFieldLines(module, struct, m) ==
    IF ~({"name", "type_", "default", "doc"} \subseteq DOMAIN m) THEN AttributeError
    ELSE Emitted(<<DirectiveLine("struct_field", m.name,
                                 [module |-> module.name, struct |-> struct.name,
                                  type |-> TypeText(m.type_)])>>)

\* ThriftModuleDocumenter._generate_struct
_generate_struct(module, struct) ==
    AndThen(Emitted(<<DirectiveLine("struct", struct.name,
                                    IF struct.isException
                                    THEN [module |-> module.name, exception |-> ""]
                                    ELSE [module |-> module.name])>>),
            InOrder([i \in 1..Len(struct.fields) |->
                        StructFieldLines(module, struct, struct.fields[i])], 1))

\* ' '.join(f'{p.name};{typeId(p.type_)}' for p in arguments), from argument i on
RECURSIVE Parameters(_, _)
Parameters(arguments, i) ==
    IF i > Len(arguments) THEN ""
    ELSE arguments[i].name \o ";" \o typeId(arguments[i].type_)
         \o (IF i < Len(arguments) THEN " " ELSE "")
         \o Parameters(arguments, i + 1)

\* ThriftModuleDocumenter._generate_method
_generate_method(module, service, method) ==
    IF ~({"name", "returnType", "arguments", "oneway", "doc"} \subseteq DOMAIN method)
       \/ \E i \in 1..Len(method.arguments) :
              ~({"name", "type_", "doc"} \subseteq DOMAIN method.arguments[i])
    THEN AttributeError
    ELSE Emitted(<<DirectiveLine("service_method", method.name,
            IF method.oneway
            THEN [module |-> module.name, service |-> service.name,
                  return_type |-> TypeText(method.returnType),
                  parameters |-> Parameters(method.arguments, 1), oneway |-> ""]
            ELSE [module |-> module.name, service |-> service.name,
                  return_type |-> TypeText(method.returnType),
                  parameters |-> Parameters(method.arguments, 1)])>>)

\* ThriftModuleDocumenter._generate_service
_generate_service(module, service) ==
    AndThen(Emitted(<<DirectiveLine("service", service.name, [module |-> module.name])>>),
            InOrder([i \in 1..Len(service.functions) |->
                        _generate_method(module, service, service.functions[i])], 1))

\* the lines of generate after load_module returned module: the module
\* directive, then the constants, typedefs, enums, structs and services
ModuleLines(module) ==
    InOrder(
        <<Emitted(<<DirectiveLine("module", module.name, << >>)>>)>>
        \o [i \in 1..Len(module.constants) |-> document_constant(module, module.constants[i])]
        \o [i \in 1..Len(module.typedefs) |-> document_typedef(module, module.typedefs[i])]
        \o [i \in 1..Len(module.enums) |-> _generate_enum(module, module.enums[i])]
        \o [i \in 1..Len(module.structs) |-> _generate_struct(module, module.structs[i])]
        \o [i \in 1..Len(module.services) |-> _generate_service(module, module.services[i])],
        1)

\* ThriftModuleDocumenter.generate with the result of load_module: the
\* exception that leaves generate, self.module and the directives added
documenter_generate(loaded) ==
    IF loaded.raised # ""
    THEN [raised |-> loaded.raised, module |-> NoneVal, lines |-> << >>]
    ELSE [raised |-> ModuleLines(loaded.value[1]).raised,
          module |-> loaded.value,
          lines |-> ModuleLines(loaded.value[1]).directives]

\* the directives of the generated lines run in order in document docname,
\* from directive i on, up to the first exception
RECURSIVE RunDirectives(_, _, _, _, _)
RunDirectives(objs, docids, docname, lines, i) ==
    IF i > Len(lines) THEN [raised |-> "", objects |-> objs, ids |-> docids]
    ELSE LET h == handle_signature(lines[i].objtype, lines[i].sig, lines[i].options)
         IN  IF h.raised # ""
             THEN [raised |-> h.raised, objects |-> objs, ids |-> docids]
             ELSE LET r == add_target_and_index(objs, docids, h.name[1], docname,
                                                lines[i].objtype)
                  IN  RunDirectives(r.objects, r.ids, docname, lines, i + 1)

\* One module is documented in document docname: generate runs with what
\* load_module gave; when generate returns, the directives it added are run.
AutoModule(docname, input, loaded) ==
    LET g == documenter_generate(loaded)
    IN  /\ ir' = Some(input)
        /\ IF g.raised # ""
           THEN /\ out' = [op |-> "automodule", raised |-> g.raised, docname |-> docname,
                           module |-> g.module, lines |-> g.lines]
                /\ UNCHANGED <<objects, ids>>
           ELSE LET r == RunDirectives(objects, ids[docname], docname, g.lines, 1)
                IN  /\ objects' = r.objects
                    /\ ids' = [ids EXCEPT ![docname] = r.ids]
                    /\ out' = [op |-> "automodule", raised |-> r.raised,
                               docname |-> docname, module |-> g.module,
                               lines |-> g.lines]

\* ------------------------------------------- modules loaded and documented

NamespaceInputs ==
    {<< >>,
     <<[language |-> "cpp", name |-> "tutorial_cpp"]>>,
     <<[language |-> "cpp", name |-> "tutorial_cpp"],
       [language |-> "py", name |-> "tutorial_py"]>>}

\* a module element without constants, typedefs, enums, structs or services
EmptyModule(name, namespaces) ==
    [name |-> name, doc |-> "a module", namespaces |-> namespaces,
     typedefs |-> << >>, enums |-> << >>, structs |-> << >>,
     constants |-> << >>, services |-> << >>]

\* the same element without the key that is left out
Without(j, key) == [k \in DOMAIN j \ {key} |-> j[k]]

\* the module elements that are read: complete ones, and ones that lack a key
\* or hold an element that lacks one
ModuleInputs ==
    UNION {LET m == EmptyModule(name, namespaces)
           IN  {m,
                Without(m, "doc"),
                Without(m, "services"),
                [m EXCEPT !.enums = <<[name |-> "Operation", doc |-> "",
                                       members |-> << >>]>>],
                [m EXCEPT !.enums = <<[name |-> "Operation", doc |-> "",
                                       members |-> <<[name |-> "ADD", value |-> 1]>>]>>],
                [m EXCEPT !.enums = <<[name |-> "Operation", members |-> << >>]>>],
                [m EXCEPT !.typedefs = <<[name |-> "MyInteger", typeId |-> "i32",
                                          doc |-> ""]>>],
                [m EXCEPT !.typedefs = <<[name |-> "MyInteger", doc |-> ""]>>],
                [m EXCEPT !.structs = <<[name |-> "Work", doc |-> "",
                                         isException |-> FALSE, isUnion |-> FALSE,
                                         fields |-> << >>]>>],
                [m EXCEPT !.services = <<[name |-> "Calculator",
                                          functions |-> << >>]>>]}
           : name \in {"tutorial"}, namespaces \in NamespaceInputs}
    \cup {EmptyModule("shared", << >>), Without(EmptyModule("shared", << >>), "doc")}

InitLoad ==
    /\ objects = << >>
    /\ ids = [d \in Docs |-> {}]
    /\ ir = NoneVal
    /\ out = [op |-> "init"]

\* The module element j is loaded and documented in document docname.
LoadAndDocument(docname, j) == AutoModule(docname, j, load_module(j))

NextLoad ==
    \E j \in ModuleInputs :
        /\ LoadAndDocument("doc1", j)
        /\ Len(objects') <= MaxLoaded

SpecLoad == InitLoad /\ [][NextLoad]_vars

\* ------------------------------------------------ well-formed modules run

\* the lists a module holds of one kind of entity: none, or one entity
ConstantLists ==
    {<< >>, <<[name |-> "INT32CONSTANT", type_ |-> Atomic("i32"), doc |-> ""]>>}

TypedefLists ==
    {<< >>, <<[name |-> "MyInteger", type_ |-> Atomic("i32"), doc |-> ""]>>}

EnumLists ==
    {<< >>,
     <<[name |-> "Operation", doc |-> "", members |-> << >>]>>,
     <<[name |-> "Operation", doc |-> "",
        members |-> <<[name |-> "ADD", value |-> 1, doc |-> ""]>>]>>}

StructLists ==
    {<< >>,
     <<[name |-> "Work", doc |-> "", isException |-> FALSE,
        fields |-> <<[name |-> "num1", type_ |-> Atomic("i32"), default |-> NoneVal,
                      doc |-> ""]>>]>>}

ServiceLists ==
    {<< >>,
     <<[name |-> "Calculator", doc |-> "",
        functions |-> <<[name |-> "add", returnType |-> Atomic("i32"),
                         arguments |-> <<[name |-> "num1", type_ |-> Atomic("i32"),
                                          doc |-> ""]>>,
                         oneway |-> FALSE, doc |-> ""]>>]>>}

\* modules with every attribute the documenter reads
DocumentedModules ==
    {[name |-> "tutorial", doc |-> "a module", namespaces |-> << >>,
      constants |-> constants, typedefs |-> typedefs, enums |-> enums,
      structs |-> structs, services |-> services] :
        constants \in ConstantLists, typedefs \in TypedefLists, enums \in EnumLists,
        structs \in StructLists, services \in ServiceLists}

InitDocument ==
    /\ objects = << >>
    /\ ids = [d \in Docs |-> {}]
    /\ ir = NoneVal
    /\ out = [op |-> "init"]

\* The module that load_module returned is documented in document docname.
Document(docname, module) == AutoModule(docname, module, Returned(module))

NextDocument ==
    \E docname \in Docs, module \in DocumentedModules :
        /\ Document(docname, module)
        /\ Len(objects') <= MaxLoaded

SpecDocument == InitDocument /\ [][NextDocument]_vars

\* ------------------------------------------------- types in a signature

\* make_desc_type(content), as inner_node
TextNode(content) == [node |-> "desc_type", text |-> content]

\* pending_xref('', inner_node(typename), reftarget=typename, reftype='field')
XrefNode(typename) ==
    [node |-> "pending_xref", text |-> typename, reftarget |-> typename,
     reftype |-> "field"]

\* typename.replace(' ', ''), from character i on
RECURSIVE RemoveSpaces(_, _)
RemoveSpaces(typename, i) ==
    IF i > Len(typename) THEN ""
    ELSE (IF SubSeq(typename, i, i) = " " THEN "" ELSE SubSeq(typename, i, i))
         \o RemoveSpaces(typename, i + 1)

StartsWith(text, prefix) ==
    Len(text) >= Len(prefix) /\ SubSeq(text, 1, Len(prefix)) = prefix

\* the text opens with the prefix and closes with '>' after it
Encloses(text, prefix) ==
    /\ Len(text) > Len(prefix)
    /\ StartsWith(text, prefix)
    /\ SubSeq(text, Len(text), Len(text)) = ">"

\* the text between the prefix and the closing '>'
Inner(text, prefix) == SubSeq(text, Len(prefix) + 1, Len(text) - 1)

Commas(text) == {i \in 1..Len(text) : SubSeq(text, i, i) = ","}

\* the comma that the greedy first group of map_re leaves to be matched
LastComma(text) == CHOOSE i \in Commas(text) : \A k \in Commas(text) : k <= i

\* domain.parse_type with make_desc_type as inner_node
RECURSIVE domain_parse_type(_)
domain_parse_type(typename) ==
    LET t == RemoveSpaces(typename, 1)
    IN  IF Encloses(t, "list<")
        THEN <<TextNode("list<")>> \o domain_parse_type(Inner(t, "list<"))
             \o <<TextNode(">")>>
        ELSE IF Encloses(t, "set<")
        THEN <<TextNode("set<")>> \o domain_parse_type(Inner(t, "set<"))
             \o <<TextNode(">")>>
        ELSE IF Encloses(t, "map<") /\ Commas(Inner(t, "map<")) # {}
        THEN LET inner == Inner(t, "map<")
             IN  <<TextNode("map<")>>
                 \o domain_parse_type(SubSeq(inner, 1, LastComma(inner) - 1))
                 \o <<TextNode(", ")>>
                 \o domain_parse_type(SubSeq(inner, LastComma(inner) + 1, Len(inner)))
                 \o <<TextNode(">")>>
        ELSE <<XrefNode(t)>>

\* a type string, the plain names it is built from in left-to-right order,
\* and its nesting depth
TypeString(typename, names, depth) ==
    [typename |-> typename, names |-> names, depth |-> depth]

PlainNames == {"i32", "string", "Operation"}

MapSiblingStrings ==
    {TypeString(n, <<n>>, 0) : n \in {"i64", "string"}}

InitSig ==
    /\ objects = << >>
    /\ ids = [d \in Docs |-> {}]
    /\ ir \in {Some(TypeString(n, <<n>>, 0)) : n \in PlainNames}
    /\ out = [op |-> "init"]

\* The type is the element type of a list or a set.
WrapText(kind) ==
    /\ ir[1].depth < MaxDepth
    /\ ir' = Some(TypeString(kind \o "<" \o ir[1].typename \o ">", ir[1].names,
                             ir[1].depth + 1))
    /\ out' = [op |-> "init"]
    /\ UNCHANGED <<objects, ids>>

\* The type is the key or the value of a map.
WrapMapText(sibling, asKey) ==
    /\ ir[1].depth < MaxDepth
    /\ ir' = Some(IF asKey
                  THEN TypeString("map<" \o ir[1].typename \o ", " \o sibling.typename
                                      \o ">",
                                  ir[1].names \o sibling.names, ir[1].depth + 1)
                  ELSE TypeString("map<" \o sibling.typename \o ", " \o ir[1].typename
                                      \o ">",
                                  sibling.names \o ir[1].names, ir[1].depth + 1))
    /\ out' = [op |-> "init"]
    /\ UNCHANGED <<objects, ids>>

\* A signature renders the type.
RenderType ==
    /\ out' = [op |-> "domain_parse_type", nodes |-> domain_parse_type(ir[1].typename)]
    /\ UNCHANGED <<objects, ids, ir>>

NextSig ==
    \/ \E kind \in {"list", "set"} : WrapText(kind)
    \/ \E sibling \in MapSiblingStrings, asKey \in BOOLEAN : WrapMapText(sibling, asKey)
    \/ RenderType

SpecSig == InitSig /\ [][NextSig]_vars

\* ------------------------------------------------------ claims: the resolver

\* the target the last resolution scanned for
ScannedTarget == EffectiveTarget(out.typ, out.target)

\* the entries whose qualified name owningModule + "." + localName is t
ExactMatches(t) ==
    {i \in 1..Len(objects) :
        PyStr(objects[i].sig.module) \o "." \o objects[i].sig.name = t}

\* the entries whose bare localName is t
BareMatches(t) == {i \in 1..Len(objects) : objects[i].sig.name = t}

\* the document location find_target returns for entry i: (docname, label)
LocationOf(i) == <<objects[i].docname, objects[i].label>>

\* the diagnostic line of candidate i: its document and its qualified name
CandidateLine(i) ==
    "   " \o objects[i].docname \o ": "
    \o PyStr(objects[i].sig.module) \o "." \o objects[i].sig.name
    \o ":" \o objects[i].sig.kind

HasEntry(kind, name, module) ==
    \E i \in 1..Len(objects) : objects[i].sig = Signature(kind, name, Some(module))

\* C1: when two or more entries have the bare localName the resolution scans
\* for and no entry has it as its qualified name, find_target returns no
\* location and its diagnostic has one line per candidate, with the
\* candidate's document and qualified name. With A.Foo:struct and B.Foo:struct
\* registered (each the only entry of its qualified name), Foo fails this way,
\* A.Foo resolves to A's document and B.Foo to B's.
C1_AmbiguousShortName ==
    out.op = "resolve_xref" =>
        /\ (ExactMatches(ScannedTarget) = {} /\ Cardinality(BareMatches(ScannedTarget)) >= 2)
              => /\ out.found.ret = NoneVal
                 /\ out.node = NoneVal
                 /\ Len(out.found.warnings) = 1 + Cardinality(BareMatches(ScannedTarget))
                 /\ \A i \in BareMatches(ScannedTarget) :
                        \E k \in 2..Len(out.found.warnings) :
                            out.found.warnings[k] = CandidateLine(i)
        /\ (/\ out.typ # "module"
            /\ HasEntry("struct", "Foo", "A") /\ HasEntry("struct", "Foo", "B")
            /\ Cardinality(ExactMatches("A.Foo")) = 1
            /\ Cardinality(ExactMatches("B.Foo")) = 1)
              => /\ out.target = "Foo" =>
                        /\ out.found.ret = NoneVal
                        /\ Len(out.found.warnings) >= 3
                 /\ out.target = "A.Foo" =>
                        out.found.ret =
                            LocationOf(IndexOf(objects, Signature("struct", "Foo", Some("A"))))
                 /\ out.target = "B.Foo" =>
                        out.found.ret =
                            LocationOf(IndexOf(objects, Signature("struct", "Foo", Some("B"))))

\* C1 witness: Foo was resolved with A.Foo:struct and B.Foo:struct registered
\* from two documents, and both were listed.
C1_Witness ==
    /\ out.op = "resolve_xref" /\ out.typ = "struct" /\ out.target = "Foo"
    /\ objects # << >> /\ Len(objects) = 2
    /\ objects[1].sig = Signature("struct", "Foo", Some("A")) /\ objects[1].docname = "doc1"
    /\ objects[2].sig = Signature("struct", "Foo", Some("B")) /\ objects[2].docname = "doc2"
    /\ out.found.warnings =
          <<"Foo is ambiguous. Possible resolutions:",
            "   doc1: A.Foo:struct", "   doc2: B.Foo:struct">>

\* the first entry in scan order whose qualified name is t
FirstExact(t) == CHOOSE i \in ExactMatches(t) : \A k \in ExactMatches(t) : i <= k

\* C2: when some entry's qualified name equals the scanned target, find_target
\* returns the document location of such an entry (the first one in scan order,
\* which is the entry itself when its qualified name is its own alone), wherever
\* it stands in the scan and however many entries have the target as their bare
\* localName; no diagnostic is emitted.
C2_ExactMatchFirst ==
    (out.op = "resolve_xref" /\ ExactMatches(ScannedTarget) # {}) =>
        /\ out.found.ret = LocationOf(FirstExact(ScannedTarget))
        /\ out.found.warnings = << >>
        /\ out.node = Some([todoc |-> objects[FirstExact(ScannedTarget)].docname,
                            refid |-> objects[FirstExact(ScannedTarget)].label])

\* C2 witness: the exact match was scanned after an entry of another document
\* whose bare localName is the target.
C2_Witness ==
    /\ out.op = "resolve_xref" /\ out.typ = "struct" /\ out.target = "A.Foo"
    /\ Len(objects) = 2
    /\ 1 \in BareMatches("A.Foo") /\ objects[1].docname = "doc1"
    /\ ExactMatches("A.Foo") = {2} /\ objects[2].docname = "doc2"
    /\ out.found.ret = <<"doc2", "A.Foo:struct">>

\* C3: when no entry's qualified name equals the scanned target and exactly
\* one entry has it as its bare localName, find_target returns that entry's
\* document location and emits no diagnostic.
C3_UniqueFallback ==
    (/\ out.op = "resolve_xref"
     /\ ExactMatches(ScannedTarget) = {}
     /\ Cardinality(BareMatches(ScannedTarget)) = 1) =>
        /\ \A i \in BareMatches(ScannedTarget) : out.found.ret = LocationOf(i)
        /\ out.found.warnings = << >>

\* C3 witness: Foo resolved to the one entry named Foo, scanned after an entry
\* of another name.
C3_Witness ==
    /\ out.op = "resolve_xref" /\ out.typ = "struct" /\ out.target = "Foo"
    /\ Len(objects) = 2
    /\ objects[1].sig.name = "A.Foo"
    /\ objects[2].sig = Signature("struct", "Foo", Some("B"))
    /\ out.found.ret = <<objects[2].docname, "B.Foo:struct">>

\* C4: when no entry matches the scanned target by qualified name or by bare
\* localName, find_target returns no location and emits no diagnostic, and
\* resolve_xref returns no link node.
C4_UnresolvedSilent ==
    (/\ out.op = "resolve_xref"
     /\ ExactMatches(ScannedTarget) = {}
     /\ BareMatches(ScannedTarget) = {}) =>
        /\ out.found.ret = NoneVal
        /\ out.found.warnings = << >>
        /\ out.node = NoneVal

\* C4 witness: Bar was resolved against a registry that holds other names.
C4_Witness ==
    /\ out.op = "resolve_xref" /\ out.typ = "struct" /\ out.target = "Bar"
    /\ Len(objects) = 2
    /\ out.found.ret = NoneVal /\ out.node = NoneVal

\* ------------------------------------------------------ claims: the registry

\* C5: registering a Signature that is already in the Registry leaves the
\* Registry unchanged, whichever document the registration comes from.
C5_RegisterIdempotent ==
    [][(/\ out'.op = "directive" /\ out'.raised = ""
        /\ out'.name[1] \in Keys(objects)) => objects' = objects]_vars

\* C6: the Registry is empty at the start, no step removes a Signature from
\* it, and resolution and index generation leave it unchanged.
C6_RegistryMonotonic ==
    /\ objects = << >>
    /\ [][/\ Keys(objects) \subseteq Keys(objects')
          /\ Len(objects') >= Len(objects)
          /\ out'.op \in {"resolve_xref", "generate"} => objects' = objects]_vars

\* C6 witness: the index was generated over a registry of two entries.
C6_Witness ==
    /\ out.op = "generate"
    /\ Len(objects) = 2 /\ Cardinality(Keys(objects)) = 2

\* C7: under the module role, whenever a module-level entry (no owning module)
\* with localName T is registered, find_target returns that entry's document.
C7_ModuleRole ==
    (out.op = "resolve_xref" /\ out.typ = "module") =>
        \A i \in 1..Len(objects) :
            (objects[i].sig.module = NoneVal /\ objects[i].sig.name = out.target) =>
                /\ out.found.ret # NoneVal
                /\ out.found.ret[1] = objects[i].docname

\* --------------------------------------------------------- claims: the index

\* the rows of the registry in scan order
Rows == [i \in 1..Len(objects) |-> IndexEntry(objects[i])]

\* C8: generate returns one group per upper-cased first character of a
\* localName, sorted by that character; a group holds exactly the rows of its
\* character in registry scan order, adjacent in the scan or not, so every
\* entry is in exactly one group exactly once. apple, Banana, avocado gives
\* A = [apple, avocado], B = [Banana].
C8_IndexConstruction ==
    out.op = "generate" =>
        LET content == out.index.content
        IN  /\ out.index.raised = ""
            /\ {content[g].key : g \in 1..Len(content)}
                  = {Upper(SubSeq(Rows[i][1], 1, 1)) : i \in 1..Len(Rows)}
            /\ \A g \in 1..Len(content) :
                  content[g].group
                      = SelectSeq(Rows, LAMBDA row :
                                     Upper(SubSeq(row[1], 1, 1)) = content[g].key)
            /\ \A g \in 1..(Len(content) - 1) :
                  Ord(content[g].key) < Ord(content[g + 1].key)
            /\ [i \in 1..Len(objects) |-> objects[i].sig.name]
                  = <<"apple", "Banana", "avocado">>
               => /\ Len(content) = 2
                  /\ content[1].key = "A" /\ content[2].key = "B"
                  /\ [n \in 1..Len(content[1].group) |-> content[1].group[n][1]]
                        = <<"apple", "avocado">>
                  /\ [n \in 1..Len(content[2].group) |-> content[2].group[n][1]]
                        = <<"Banana">>

\* C8 witness: the index of apple, Banana, avocado, registered in that order.
C8_Witness ==
    /\ out.op = "generate"
    /\ [i \in 1..Len(objects) |-> objects[i].sig.name] = <<"apple", "Banana", "avocado">>
    /\ Len(out.index.content) = 2

\* ------------------------------------------------ claims: the AST builder

\* an IR type node of the grammar: a basic keyword, an id with its two
\* attributes, a list or set of one such node, a map of two such nodes
RECURSIVE WellFormed(_)
WellFormed(node) ==
    \/ node.type \in BasicTypes
    \/ node.type = "id" /\ {"type_module", "type_id"} \subseteq DOMAIN node
    \/ /\ node.type \in {"list", "set"} /\ "valueType" \in DOMAIN node
       /\ WellFormed(node.valueType)
    \/ /\ node.type = "map" /\ {"keyType", "valueType"} \subseteq DOMAIN node
       /\ WellFormed(node.keyType) /\ WellFormed(node.valueType)

\* Type t is the Type of IR node node
RECURSIVE Corresponds(_, _)
Corresponds(node, t) ==
    CASE node.type = "list" -> t.tag = "List" /\ Corresponds(node.valueType, t.elem)
      [] node.type = "set" -> t.tag = "Set" /\ Corresponds(node.valueType, t.elem)
      [] node.type = "map" ->
            /\ t.tag = "Map"
            /\ Corresponds(node.keyType, t.key)
            /\ Corresponds(node.valueType, t.value)
      [] node.type = "id" ->
            t.tag = "Reference" /\ t.module = node.type_module /\ t.name = node.type_id
      [] OTHER -> t.tag = "Atomic" /\ t.name = node.type

\* C9: every IR type node built from the basic keywords, list, set, map and
\* id parses without error to the Type of the same structure, at every depth;
\* list<list<double>> parses to List(List(Atomic(double))).
C9_TypeParsingStructural ==
    (out.op = "parse_type" /\ WellFormed(ir[1])) =>
        /\ out.result.error = ""
        /\ Corresponds(ir[1], out.result.type)
        /\ ir[1] = [type |-> "list",
                    valueType |-> [type |-> "list", valueType |-> [type |-> "double"]]]
           => out.result.type
                 = [tag |-> "List",
                    elem |-> [tag |-> "List",
                              elem |-> [tag |-> "Atomic", name |-> "double"]]]

\* C9 witness: list<list<double>> was parsed.
C9_Witness ==
    /\ out.op = "parse_type"
    /\ ir[1] = [type |-> "list",
                valueType |-> [type |-> "list", valueType |-> [type |-> "double"]]]
    /\ out.result.error = ""

\* the doc of a built member; an AST record without one has the default ''
DocOf(m) == IF "doc" \in DOMAIN m THEN m.doc ELSE ""

\* C10: the built Enum lists one member per declared member, in declaration
\* order, each with the name, the value and the doc the IR gives.
C10_EnumMembersPreserved ==
    (out.op = "parse_enum" /\ out.result.raised = "") =>
        LET built == out.result.enum[1].members
            declared == ir[1].members
        IN  /\ Len(built) = Len(declared)
            /\ \A i \in 1..Len(declared) :
                  i <= Len(built) =>
                      /\ built[i].name = declared[i].name
                      /\ built[i].value = declared[i].value
                      /\ DocOf(built[i]) = declared[i].doc

\* ------------------------------------------------- claims: loading a module

\* the element lacks a key that load_module reads, or holds a typedef, enum,
\* struct or service that lacks one
MissingAttribute(j) ==
    \/ ~({"name", "doc", "namespaces", "typedefs", "enums", "structs", "constants",
          "services"} \subseteq DOMAIN j)
    \/ \E i \in 1..Len(j.typedefs) : DOMAIN j.typedefs[i] # {"name", "typeId", "doc"}
    \/ \E i \in 1..Len(j.enums) : ~({"name", "doc", "members"} \subseteq DOMAIN j.enums[i])
    \/ \E i \in 1..Len(j.structs) :
           ~({"name", "doc", "isException", "isUnion", "fields"} \subseteq DOMAIN j.structs[i])
    \/ \E i \in 1..Len(j.services) :
           ~({"name", "functions"} \subseteq DOMAIN j.services[i])

\* C11: when building the AST of a module fails, the failure leaves generate,
\* no Module is produced, no directive line is emitted, and the registry and
\* the ids of the document are what they were before, so the entries of the
\* modules processed before remain.
C11_MalformedAbortsAtomically ==
    [][(out'.op = "automodule" /\ MissingAttribute(ir'[1]))
         => /\ out'.raised \in {"KeyError", "TypeError"}
            /\ out'.module = NoneVal
            /\ out'.lines = << >>
            /\ objects' = objects
            /\ ids' = ids]_vars

\* a malformed module was processed after another module had been registered
C11_Witness ==
    /\ out.op = "automodule"
    /\ MissingAttribute(ir[1])
    /\ out.raised # ""
    /\ Len(objects) >= 2

\* C15: the Module that load_module returns has the name given at the top
\* level of the input, whatever namespaces are declared, and one (language,
\* name) record per declared namespace in declaration order.
C15_ModuleNameKept ==
    (out.op = "automodule" /\ out.module # NoneVal)
        => /\ out.module[1].name = ir[1].name
           /\ out.module[1].namespaces =
                  [i \in 1..Len(ir[1].namespaces) |->
                      [name |-> ir[1].namespaces[i].name,
                       language |-> ir[1].namespaces[i].language]]

\* ----------------------------------------------- claims: documenting a module

\* the Signature of every documentable entity of a module
Entities(module) ==
    {Signature("module", module.name, NoneVal)}
    \cup {Signature("constant", module.constants[i].name, Some(module.name)) :
             i \in 1..Len(module.constants)}
    \cup {Signature("typedef", module.typedefs[i].name, Some(module.name)) :
             i \in 1..Len(module.typedefs)}
    \cup {Signature("enum", module.enums[i].name, Some(module.name)) :
             i \in 1..Len(module.enums)}
    \cup UNION {{Signature("enum_field",
                           module.enums[i].name \o "." \o module.enums[i].members[k].name,
                           Some(module.name)) :
                    k \in 1..Len(module.enums[i].members)} : i \in 1..Len(module.enums)}
    \cup {Signature("struct", module.structs[i].name, Some(module.name)) :
             i \in 1..Len(module.structs)}
    \cup UNION {{Signature("struct_field",
                           module.structs[i].name \o "." \o module.structs[i].fields[k].name,
                           Some(module.name)) :
                    k \in 1..Len(module.structs[i].fields)} : i \in 1..Len(module.structs)}
    \cup {Signature("service", module.services[i].name, Some(module.name)) :
             i \in 1..Len(module.services)}
    \cup UNION {{Signature("service_method",
                           module.services[i].name \o "."
                               \o module.services[i].functions[k].name,
                           Some(module.name)) :
                    k \in 1..Len(module.services[i].functions)} :
                   i \in 1..Len(module.services)}

\* C13: after a well-formed module is processed, no directive handler has
\* raised and the registry holds the Signature of the module and of each of
\* its constants, typedefs, enums, enum members, structs, struct fields,
\* services and service methods.
C13_EveryEntityRegistered ==
    out.op = "automodule"
        => /\ out.raised = ""
           /\ Entities(out.module[1]) \subseteq Keys(objects)

\* ------------------------------------------- claims: the registry and the roles

\* the original wording of C12: at most one entry has any given qualified name
C12_AtMostOneExactMatch ==
    \A i, k \in 1..Len(objects) :
        Qualified(objects[i].sig) = Qualified(objects[k].sig) => i = k

\* C12: at most one entry has any given Signature (kind, localName,
\* owningModule); entries with different Signatures can share a qualified name.
C12_OneEntryPerSignature ==
    \A i, k \in 1..Len(objects) : objects[i].sig = objects[k].sig => i = k

\* two entries share a qualified name, and one of them was registered from
\* both documents
C12_Witness ==
    /\ \E i, k \in 1..Len(objects) :
           i # k /\ Qualified(objects[i].sig) = Qualified(objects[k].sig)
    /\ \E n \in 1..Len(objects) : \A d \in Docs : objects[n].sig \in ids[d]

\* C14: under two roles other than "module", find_target gives the same
\* result for the same registry and target.
C14_RoleKindIgnored ==
    (out.op = "resolve_xref" /\ out.typ # "module")
        => \A role \in RoleNames \ {"module"} :
               find_target(objects, role, out.target) = out.found

\* a reference of role struct resolved to an entry of kind enum
C14_Witness ==
    /\ out.op = "resolve_xref"
    /\ out.typ = "struct"
    /\ out.found.ret # NoneVal
    /\ \E i \in 1..Len(objects) :
           /\ objects[i].sig.kind = "enum"
           /\ out.found.ret = Location(objects[i])

\* ------------------------------------------------ claims: types in a signature

\* the targets of the cross-reference nodes, in order
XrefTargets(nodes) ==
    LET xrefs == SelectSeq(nodes, LAMBDA n : n.node = "pending_xref")
    IN  [i \in 1..Len(xrefs) |-> xrefs[i].reftarget]

Punctuation(text) ==
    \E i \in 1..Len(text) : SubSeq(text, i, i) \in {"<", ">", ","}

\* C16: parse_type of domain.py emits one cross-reference per plain type name
\* of the type string, in left-to-right order, each targeting that name, and
\* no target holds '<', '>' or ','.
C16_OneXrefPerName ==
    out.op = "domain_parse_type"
        => /\ XrefTargets(out.nodes) = ir[1].names
           /\ \A i \in 1..Len(out.nodes) :
                  out.nodes[i].node = "pending_xref"
                      => ~Punctuation(out.nodes[i].reftarget)

====
